---------------------------- MODULE Spec2Model ----------------------------
(***************************************************************************)
(* A model of baybe's recommender.py and scaler.py.                        *)
(*                                                                         *)
(*   - Recommender / MarginalRankingRecommender / RandomRecommender:       *)
(*     the selection of candidate identifiers (SpecRecommender).           *)
(*   - Scaler / DefaultScaler: the fitted-state guard and the six scale    *)
(*     functions, call by call (SpecScaler) and statement by statement     *)
(*     under thread interleaving (SpecThreads).                            *)
(*   - the two SUBCLASSES registries filled by __init_subclass__           *)
(*     (SpecRegistry).                                                     *)
(*                                                                         *)
(* Positions are 1-based here and 0-based in the source.  Tensor entries   *)
(* are exact rationals extended with nan, inf and -inf, combined as IEEE   *)
(* arithmetic combines them; rounding is not modelled.                     *)
(***************************************************************************)
EXTENDS Integers, Sequences, FiniteSets, TLC

VARIABLES
    candidates,             \* the candidate table of the round (its index)
    acqf_values,            \* what the acquisition function returns for its rows
    rec,                    \* the last recommend() call and what it returned
    searchspace,            \* Scaler.searchspace
    fitted,                 \* Scaler.fitted
    scale_x, scale_y,       \* the six scale functions of the instance
    unscale_x, unscale_y,
    unscale_m, unscale_s,
    call,                   \* the last Scaler call and what it returned
    lastFit,                \* history: the last fit_transform call
    fitReturned,            \* history: some fit_transform call has returned normally
    refitted,               \* history: a fit_transform call replaced fitted parameters
    RecommenderSUBCLASSES,  \* Recommender.SUBCLASSES
    ScalerSUBCLASSES,       \* Scaler.SUBCLASSES
    defn,                   \* the last class definition and its outcome
    pc,                     \* per thread: the statement it is about to execute
    frame                   \* per thread: the locals of its running call

recVars      == <<candidates, acqf_values, rec>>
scalerVars   == <<searchspace, fitted, scale_x, scale_y, unscale_x, unscale_y,
                  unscale_m, unscale_s>>
callVars     == <<call, lastFit, fitReturned, refitted>>
registryVars == <<RecommenderSUBCLASSES, ScalerSUBCLASSES, defn>>
threadVars   == <<pc, frame>>
vars == <<recVars, scalerVars, callVars, registryVars, threadVars>>

-----------------------------------------------------------------------------
(* Bounds of the model.                                                    *)

MaxCand == 3            \* most candidates in a table
MaxRows == 2            \* most rows of the experiment space
MaxRefitTargets == 2    \* most training targets of a call in a sequence of re-fits
MaxTargets == 3         \* most training targets of the single fit of SpecExample
MaxDefs == 3            \* most class definitions after the two modules are imported

Scores == {0, 1}            \* values of the acquisition function
Dims == {1, 2}              \* feature dimensions of the experiment space
Widths == {1, 2, 3}         \* widths of the training inputs (3 fits no space)
SpaceVals == {0, 5, 10}     \* feature values of the experiment space
RefitSpaceVals == {0, 10}   \* the same, for a sequence of re-fits
TrainVals == {5}            \* entries of the training inputs in a sequence of re-fits
FeatureVals == {0, 5, 10}   \* entries of the inputs scaled after the single fit
RefitVals == {2, 4}         \* training targets in a sequence of re-fits
TargetVals == {2, 4, 6}     \* training targets of the single fit
MomentVals == {1}           \* posterior means and variances handed to untransform

None == [k |-> "None"]

-----------------------------------------------------------------------------
(* Tensor entries: rationals n/d in lowest terms with d > 0, and the IEEE  *)
(* specials.  Sqrt(v) of a rational that is no perfect square is kept as   *)
(* the surd r + s * sqrt(rad).                                             *)

Abs(i) == IF i < 0 THEN -i ELSE i

RECURSIVE GCD(_, _)
GCD(a, b) == IF b = 0 THEN a ELSE GCD(b, a % b)

Fin(n, d) ==
    LET g == GCD(Abs(n), Abs(d))
        s == IF d < 0 THEN -1 ELSE 1
    IN  [k |-> "fin", n |-> (s * n) \div g, d |-> (s * d) \div g]

Int2Num(i) == Fin(i, 1)
NaN == [k |-> "nan"]
PosInf == [k |-> "inf"]
NegInf == [k |-> "ninf"]

IsFin(a) == a.k = "fin"
Sign(a) ==
    CASE a.k = "inf" -> 1
      [] a.k = "ninf" -> -1
      [] a.k = "fin" -> (IF a.n > 0 THEN 1 ELSE IF a.n < 0 THEN -1 ELSE 0)
      [] OTHER -> 0
Signed(s) == IF s > 0 THEN PosInf ELSE IF s < 0 THEN NegInf ELSE NaN

Add(a, b) ==
    CASE a.k = "nan" \/ b.k = "nan" -> NaN
      [] IsFin(a) /\ IsFin(b) -> Fin(a.n * b.d + b.n * a.d, a.d * b.d)
      [] IsFin(a) -> b
      [] IsFin(b) -> a
      [] OTHER -> IF a.k = b.k THEN a ELSE NaN        \* inf + -inf = nan

Neg(a) ==
    CASE a.k = "fin" -> Fin(-a.n, a.d)
      [] a.k = "inf" -> NegInf
      [] a.k = "ninf" -> PosInf
      [] OTHER -> NaN

Sub(a, b) == Add(a, Neg(b))

Mul(a, b) ==
    CASE a.k = "nan" \/ b.k = "nan" -> NaN
      [] IsFin(a) /\ IsFin(b) -> Fin(a.n * b.n, a.d * b.d)
      [] OTHER -> Signed(Sign(a) * Sign(b))           \* inf * 0 = nan

Div(a, b) ==
    CASE a.k = "nan" \/ b.k = "nan" -> NaN
      [] IsFin(a) /\ IsFin(b) ->
            IF b.n = 0 THEN Signed(Sign(a))           \* x/0 = +-inf, 0/0 = nan
            ELSE Fin(a.n * b.d, a.d * b.n)
      [] IsFin(a) -> Int2Num(0)                       \* x / +-inf
      [] IsFin(b) -> Signed(Sign(a) * (IF Sign(b) < 0 THEN -1 ELSE 1))
      [] OTHER -> NaN                                 \* inf / inf

Less(a, b) == IsFin(a) /\ IsFin(b) /\ a.n * b.d < b.n * a.d


Zero == Int2Num(0)

IsSquare(n) == n >= 0 /\ \E r \in 0..n : r * r = n
ISqrt(n) == CHOOSE r \in 0..n : r * r = n

SurdOf(r, s, rad) ==
    IF s = Zero THEN r ELSE [k |-> "surd", r |-> r, s |-> s, rad |-> rad]

\* torch.sqrt of an entry that is finite and >= 0, or nan
Sqrt(v) ==
    IF ~IsFin(v) THEN v
    ELSE IF IsSquare(v.n) /\ IsSquare(v.d) THEN Fin(ISqrt(v.n), ISqrt(v.d))
    ELSE SurdOf(Zero, Int2Num(1), v)

\* l * std, a / std, a + m and std ** 2, where std may be a surd
TimesStd(l, std) ==
    IF std.k = "surd" THEN SurdOf(Zero, l, std.rad) ELSE Mul(l, std)
OverStd(a, std) ==
    IF std.k = "surd" THEN SurdOf(Zero, Div(a, std.rad), std.rad) ELSE Div(a, std)
Plus(a, m) ==
    IF a.k = "surd" THEN SurdOf(Add(a.r, m), a.s, a.rad) ELSE Add(a, m)
Square(std) ==
    IF std.k = "surd" THEN std.rad ELSE Mul(std, std)

-----------------------------------------------------------------------------
(* Tensors.  A 1-d tensor is a sequence of entries, a table a sequence of  *)
(* rows.  to_tensor turns the table's numbers into entries.                *)

Range(s) == {s[i] : i \in DOMAIN s}
SeqsUpTo(S, n) == UNION {[1..m -> S] : m \in 1..n}

to_tensor(rows) == [i \in DOMAIN rows |-> [j \in DOMAIN rows[i] |-> Int2Num(rows[i][j])]]

RECURSIVE SumSeq(_)
SumSeq(s) == IF s = <<>> THEN Zero ELSE Add(Head(s), SumSeq(Tail(s)))

\* torch.min(t, dim=0)[0] and torch.max(t, dim=0)[0] of a table of finite entries
ColMin(t) ==
    [j \in DOMAIN t[1] |->
        CHOOSE m \in {t[i][j] : i \in DOMAIN t} : \A i \in DOMAIN t : ~Less(t[i][j], m)]
ColMax(t) ==
    [j \in DOMAIN t[1] |->
        CHOOSE m \in {t[i][j] : i \in DOMAIN t} : \A i \in DOMAIN t : ~Less(m, t[i][j])]

\* torch.mean(y, dim=0)
TorchMean(y) == Div(SumSeq(y), Int2Num(Len(y)))

\* torch.std(y, dim=0): Bessel's correction is the default (unbiased=True);
\* a single target gives nan.
StdDivisorPopulation(n) == n           \* variant: the population deviation
StdDivisor(n) == n - 1
TorchStd(y) ==
    LET m == TorchMean(y)
        dev == [i \in DOMAIN y |-> Mul(Sub(y[i], m), Sub(y[i], m))]
    IN  Sqrt(Div(SumSeq(dev), Int2Num(StdDivisor(Len(y)))))

\* Broadcasting of 1-d tensors of widths w and d
Broadcastable(w, d) == w = d \/ w = 1 \/ d = 1
BWidth(w, d) == IF w = 1 THEN d ELSE w
At(s, j) == IF Len(s) = 1 THEN s[1] ELSE s[j]

-----------------------------------------------------------------------------
(* scaler.py: the six scale functions of DefaultScaler.  A stored function *)
(* is the closure fit_transform built: its name and the locals it captured. *)
(* An attribute __init__ only annotates does not exist until assigned.     *)

Unassigned == [fn |-> "unassigned"]

\* lines 67-70: row 1 of bounds is the per-column min, row 2 the max
Bounds(space) == LET t == to_tensor(space) IN <<ColMin(t), ColMax(t)>>

\* line 77: (l - bounds[0]) / (bounds[1] - bounds[0])
ScaleX(bounds, l) ==
    [j \in 1..BWidth(Len(l), Len(bounds[1])) |->
        Div(Sub(At(l, j), At(bounds[1], j)), Sub(At(bounds[2], j), At(bounds[1], j)))]
\* line 78: (l - mean) / std
ScaleY(mean, std, l) == [i \in DOMAIN l |-> OverStd(Sub(l[i], mean), std)]
\* variant: multiplies by the upper bound instead of the range
UnscaleXByUpper(bounds, l) ==
    [j \in 1..BWidth(Len(l), Len(bounds[1])) |->
        Add(Mul(At(l, j), At(bounds[2], j)), At(bounds[1], j))]
\* line 81: l * (bounds[1] - bounds[0]) + bounds[0]
UnscaleX(bounds, l) ==
    [j \in 1..BWidth(Len(l), Len(bounds[1])) |->
        Add(Mul(At(l, j), Sub(At(bounds[2], j), At(bounds[1], j))), At(bounds[1], j))]
\* line 82: l * std + mean
UnscaleY(mean, std, l) == [i \in DOMAIN l |-> Plus(TimesStd(l[i], std), mean)]
\* line 85: l * std + mean
UnscaleM(mean, std, l) == [i \in DOMAIN l |-> Plus(TimesStd(l[i], std), mean)]
\* line 86: l * std**2
UnscaleS(mean, std, l) == [i \in DOMAIN l |-> Mul(l[i], Square(std))]

XClosure(name, bounds) == [fn |-> name, bounds |-> bounds]
YClosure(name, mean, std) == [fn |-> name, mean |-> mean, std |-> std]

\* whether calling the stored function f on l raises, and what it returns
Raises(f, l) ==
    \/ f = Unassigned
    \/ f.fn \in {"scale_x", "unscale_x"} /\ ~Broadcastable(Len(l), Len(f.bounds[1]))
Apply(f, l) ==
    CASE f.fn = "scale_x" -> ScaleX(f.bounds, l)
      [] f.fn = "unscale_x" -> UnscaleX(f.bounds, l)
      [] f.fn = "scale_y" -> ScaleY(f.mean, f.std, l)
      [] f.fn = "unscale_y" -> UnscaleY(f.mean, f.std, l)
      [] f.fn = "unscale_m" -> UnscaleM(f.mean, f.std, l)
      [] f.fn = "unscale_s" -> UnscaleS(f.mean, f.std, l)

NotFittedError == [type |-> "RuntimeError", msg |-> "Scaler object must be fitted first."]
BroadcastError == [type |-> "RuntimeError", msg |-> "The size of tensor a must match the size of tensor b"]
NotATensorError == [type |-> "TypeError", msg |-> "mean(): argument 'input' must be Tensor"]
AttributeError == [type |-> "AttributeError", msg |-> "object has no attribute"]
ErrorOf(f) == IF f = Unassigned THEN AttributeError ELSE BroadcastError

Return(v) == [out |-> "return", val |-> v]
Raise(e) == [out |-> "raise", exc |-> e]

-----------------------------------------------------------------------------
(* Inputs of the Scaler calls.  A target sequence <<>> stands for an       *)
(* argument that is no tensor.                                             *)

\* An experiment space lists distinct configurations; the model lists them in
\* lexicographic order (bounds do not depend on the order of the rows).
RowLess(a, b) == \E k \in DOMAIN a : a[k] < b[k] /\ \A i \in 1..(k - 1) : a[i] = b[i]
Spaces ==
    UNION {{t \in SeqsUpTo([1..d -> SpaceVals], MaxRows) :
                \A i, j \in DOMAIN t : i < j => RowLess(t[i], t[j])} : d \in Dims}
\* two rows of two features
RefitSpaces == {t \in [1..2 -> [1..2 -> RefitSpaceVals]] : RowLess(t[1], t[2])}
TrainInputs == UNION {[1..w -> TrainVals] : w \in Widths}
RefitTargets == SeqsUpTo(RefitVals, MaxRefitTargets) \cup {<<>>}
ExampleTargets == SeqsUpTo(TargetVals, MaxTargets)
Moments == {<<m>> : m \in MomentVals}
Row(v) == [j \in DOMAIN v |-> Int2Num(v[j])]
Tensor(v) == IF v = <<>> THEN [isTensor |-> FALSE, data |-> <<>>]
             ELSE [isTensor |-> TRUE, data |-> Row(v)]

-----------------------------------------------------------------------------
(* scaler.py, one call at a time.                                          *)

\* Scaler.__init__ (lines 25-33)
ScalerInit(space) ==
    /\ searchspace = space
    /\ fitted = FALSE
    /\ scale_x = Unassigned /\ scale_y = Unassigned
    /\ unscale_x = Unassigned /\ unscale_y = Unassigned
    /\ unscale_m = Unassigned /\ unscale_s = Unassigned

FitCall(x, y, res) == [op |-> "fit_transform", x |-> x, y |-> y, res |-> res]

\* fit_transform when line 73 raises: nothing is stored
FitFails(x, y) ==
    /\ call' = FitCall(x, y, Raise(NotATensorError))
    /\ lastFit' = call'
    /\ UNCHANGED <<scalerVars, fitReturned, refitted>>

\* fit_transform from line 67 on, for a tensor y
FitStores(x, y) ==
    \E bounds \in {Bounds(searchspace)}, mean \in {TorchMean(y.data)},
       std \in {TorchStd(y.data)} :
        /\ scale_x' = XClosure("scale_x", bounds)
        /\ scale_y' = YClosure("scale_y", mean, std)
        /\ unscale_x' = XClosure("unscale_x", bounds)
        /\ unscale_y' = YClosure("unscale_y", mean, std)
        /\ unscale_m' = YClosure("unscale_m", mean, std)
        /\ unscale_s' = YClosure("unscale_s", mean, std)
        /\ fitted' = TRUE
        /\ UNCHANGED searchspace
        \* line 91, after the flag is set
        /\ IF Raises(scale_x', x)
           THEN /\ call' = FitCall(x, y, Raise(BroadcastError))
                /\ UNCHANGED fitReturned
           ELSE /\ call' = FitCall(x, y,
                       Return(<<Apply(scale_x', x), Apply(scale_y', y.data)>>))
                /\ fitReturned' = TRUE
        /\ lastFit' = call'
        /\ refitted' = (refitted \/ (fitted /\ scale_y' /= scale_y))

\* variant: a fitted instance keeps the functions of its first fit
FitTransformOnce(x, y) ==
    IF ~y.isTensor THEN FitFails(x, y)
    ELSE IF ~fitted THEN FitStores(x, y)
    ELSE /\ call' = FitCall(x, y,
                IF Raises(scale_x, x) THEN Raise(BroadcastError)
                ELSE Return(<<Apply(scale_x, x), Apply(scale_y, y.data)>>))
         /\ lastFit' = call'
         /\ fitReturned' = (fitReturned \/ ~Raises(scale_x, x))
         /\ UNCHANGED <<scalerVars, refitted>>

\* DefaultScaler.fit_transform (lines 63-91)
FitTransform(x, y) ==
    IF ~y.isTensor THEN FitFails(x, y) ELSE FitStores(x, y)

\* Scaler.transform (lines 39-43)
Transform(x) ==
    /\ call' = [op |-> "transform", x |-> x,
                res |-> IF ~fitted THEN Raise(NotFittedError)
                        ELSE IF Raises(scale_x, x) THEN Raise(ErrorOf(scale_x))
                        ELSE Return(Apply(scale_x, x))]
    /\ UNCHANGED <<scalerVars, fitReturned, lastFit, refitted>>

\* Scaler.untransform (lines 45-49)
Untransform(mean, variance) ==
    /\ call' = [op |-> "untransform", mean |-> mean, variance |-> variance,
                res |-> IF ~fitted THEN Raise(NotFittedError)
                        ELSE IF Raises(unscale_m, mean) THEN Raise(ErrorOf(unscale_m))
                        ELSE IF Raises(unscale_s, variance) THEN Raise(ErrorOf(unscale_s))
                        ELSE Return(<<Apply(unscale_m, mean), Apply(unscale_s, variance)>>)]
    /\ UNCHANGED <<scalerVars, fitReturned, lastFit, refitted>>

\* A caller's direct use of the stored functions: f(l), and g(f(l))
CallFn(name, f, l) ==
    /\ call' = [op |-> name, x |-> l,
                res |-> IF Raises(f, l) THEN Raise(ErrorOf(f)) ELSE Return(Apply(f, l))]
    /\ UNCHANGED <<scalerVars, fitReturned, lastFit, refitted>>
CallRoundTrip(name, f, g, l) ==
    /\ call' = [op |-> name, x |-> l,
                res |-> IF Raises(f, l) THEN Raise(ErrorOf(f))
                        ELSE IF Raises(g, Apply(f, l)) THEN Raise(ErrorOf(g))
                        ELSE Return(Apply(g, Apply(f, l)))]
    /\ UNCHANGED <<scalerVars, fitReturned, lastFit, refitted>>

NoCall == [op |-> "none"]

InitOther ==
    /\ candidates = <<>> /\ acqf_values = <<>> /\ rec = None
    /\ RecommenderSUBCLASSES = <<>>
    /\ ScalerSUBCLASSES = <<>>
    /\ defn = None
    /\ pc = <<>>
    /\ frame = <<>>

InitCalls ==
    /\ call = NoCall
    /\ lastFit = NoCall
    /\ fitReturned = FALSE
    /\ refitted = FALSE

InitScaler ==
    /\ \E space \in RefitSpaces : ScalerInit(space)
    /\ InitCalls
    /\ InitOther

\* Any sequence of calls on one instance, re-fits included.
NextScaler ==
    /\ UNCHANGED <<recVars, registryVars, threadVars>>
    /\ \/ \E x \in TrainInputs, y \in RefitTargets : FitTransform(Row(x), Tensor(y))
       \/ \E x \in TrainInputs : Transform(Row(x))
       \/ \E m \in Moments, v \in Moments : Untransform(Row(m), Row(v))

SpecScaler == InitScaler /\ [][NextScaler]_vars

\* One fit on a training row of the space, then one use of the fitted
\* functions on an input of the space's width (no use changes the instance,
\* so a second use would see what the first saw).
Probes == [1..Len(searchspace[1]) -> FeatureVals]
NextExample ==
    /\ UNCHANGED <<recVars, registryVars, threadVars>>
    /\ \/ /\ ~fitted
          /\ \E y \in ExampleTargets : FitTransform(Row(searchspace[1]), Tensor(y))
       \/ /\ call.op = "fit_transform"
          /\ \/ \E x \in Probes : Transform(Row(x))
             \/ \E x \in Probes : CallFn("scale_x", scale_x, Row(x))
             \/ \E y \in TargetVals : CallFn("scale_y", scale_y, Row(<<y>>))
             \/ \E x \in Probes :
                    CallRoundTrip("unscale_x(scale_x)", scale_x, unscale_x, Row(x))
             \/ \E m \in Moments, v \in Moments : Untransform(Row(m), Row(v))

InitExample ==
    /\ \E space \in Spaces : ScalerInit(space)
    /\ InitCalls
    /\ InitOther

SpecExample == InitExample /\ [][NextExample]_vars

-----------------------------------------------------------------------------
(* recommender.py.  A candidate table is its DataFrame index: a sequence   *)
(* of distinct labels, one per row.  The acquisition function is given by  *)
(* the values it returns for the rows, one per row.                        *)

Min(a, b) == IF a < b THEN a ELSE b
Injective(f) == \A i, j \in DOMAIN f : i /= j => f[i] /= f[j]
Labels == {10 * i : i \in 1..MaxCand}
Tables == {t \in SeqsUpTo(Labels, MaxCand) : Injective(t)}
BatchQuantities == 1..(MaxCand + 1)

\* variant: ascending, as without descending=True
ArgsortAscending(values) ==
    {p \in [DOMAIN values -> DOMAIN values] :
        /\ Injective(p)
        /\ \A i, j \in DOMAIN values : i < j => values[p[i]] <= values[p[j]]}
\* torch.argsort(values, descending=True): stable is not requested, so the
\* order of equal values is whatever the sort routine produces.
Argsort(values) ==
    {p \in [DOMAIN values -> DOMAIN values] :
        /\ Injective(p)
        /\ \A i, j \in DOMAIN values : i < j => values[p[i]] >= values[p[j]]}

\* variant: ilocs[:batch_quantity + 1]
SliceOffByOne(ilocs, n) == SubSeq(ilocs, 1, Min(n + 1, Len(ilocs)))
\* ilocs[:batch_quantity]
Slice(ilocs, n) == SubSeq(ilocs, 1, Min(n, Len(ilocs)))
\* candidates.index[positions]
IndexAt(table, positions) == [i \in DOMAIN positions |-> table[positions[i]]]

\* DataFrame.sample(n) without replacement: n distinct rows in any order
Samples(table, n) == {p \in [1..n -> DOMAIN table] : Injective(p)}
SampleError == [type |-> "ValueError",
                msg |-> "Cannot take a larger sample than population when 'replace=False'"]

RecCall(type, batch_quantity, res) ==
    [type |-> type, batch_quantity |-> batch_quantity, res |-> res]

\* MarginalRankingRecommender.recommend (lines 71-82); ilocs is what
\* torch.argsort returned at line 78
MarginalRecommend(batch_quantity, ilocs) ==
    /\ rec' = RecCall("UNRESTRICTED_RANKING", batch_quantity,
                      Return(IndexAt(candidates, Slice(ilocs, batch_quantity))))
    /\ UNCHANGED <<candidates, acqf_values>>

\* variant: truncates to the pool instead of failing
RandomRecommendTruncating(batch_quantity, rows) ==
    /\ rec' = RecCall("RANDOM", batch_quantity, Return(IndexAt(candidates, rows)))
    /\ UNCHANGED <<candidates, acqf_values>>

\* RandomRecommender.recommend (lines 92-95); rows is what DataFrame.sample drew
RandomRecommend(batch_quantity, rows) ==
    /\ rec' = RecCall("RANDOM", batch_quantity,
                      IF batch_quantity > Len(candidates) THEN Raise(SampleError)
                      ELSE Return(IndexAt(candidates, rows)))
    /\ UNCHANGED <<candidates, acqf_values>>

InitRecommender ==
    /\ candidates \in Tables
    /\ acqf_values \in [DOMAIN candidates -> Scores]
    /\ rec = None
    /\ searchspace = <<>> /\ fitted = FALSE
    /\ scale_x = Unassigned /\ scale_y = Unassigned
    /\ unscale_x = Unassigned /\ unscale_y = Unassigned
    /\ unscale_m = Unassigned /\ unscale_s = Unassigned
    /\ InitCalls
    /\ RecommenderSUBCLASSES = <<>> /\ ScalerSUBCLASSES = <<>> /\ defn = None
    /\ pc = <<>> /\ frame = <<>>

NextRecommender ==
    /\ UNCHANGED <<scalerVars, callVars, registryVars, threadVars>>
    /\ \/ \E ilocs \in Argsort(acqf_values) :
             \E batch_quantity \in BatchQuantities : MarginalRecommend(batch_quantity, ilocs)
       \/ \E batch_quantity \in BatchQuantities :
             \E rows \in Samples(candidates, Min(batch_quantity, Len(candidates))) :
                RandomRecommend(batch_quantity, rows)

SpecRecommender == InitRecommender /\ [][NextRecommender]_vars

-----------------------------------------------------------------------------
(* The registries.  A class is named by the count of the definition that   *)
(* made it (0: the classes the two modules define themselves); its type    *)
(* attribute is a name or missing, and it is abstract or concrete.         *)

TypeNames == {"UNRESTRICTED_RANKING", "RANDOM", "DEFAULT", "A"}
NoType == "<no type attribute>"
Class(name, id) == [name |-> name, id |-> id]
NoClass == Class("<none>", 0)

Put(reg, key, cls) == [n \in DOMAIN reg \cup {key} |-> IF n = key THEN cls ELSE reg[n]]
Lookup(reg, key) == IF key \in DOMAIN reg THEN reg[key] ELSE NoClass

\* utils.isabstract: whether the class is abstract
isabstract(abstract) == abstract

\* line 41 of recommender.py and line 55 of scaler.py: cls.SUBCLASSES[cls.type] = cls
Register(reg, type, cls) == Put(reg, type, cls)

DefCall(family, type, abstract, prior, res) ==
    [n |-> defn.n + 1, family |-> family, type |-> type, abstract |-> abstract,
     prior |-> prior, res |-> res]

\* class X(Recommender): Recommender.__init_subclass__ (lines 36-41)
DefineRecommender(type, abstract) ==
    /\ defn.n < MaxDefs
    /\ LET cls == Class("Recommender subclass", defn.n + 1)
           prior == Lookup(RecommenderSUBCLASSES, type)
       IN  IF isabstract(abstract)
           THEN /\ defn' = DefCall("Recommender", type, abstract, prior, Return(cls))
                /\ UNCHANGED RecommenderSUBCLASSES
           ELSE IF type = NoType
           THEN /\ defn' = DefCall("Recommender", type, abstract, prior, Raise(AttributeError))
                /\ UNCHANGED RecommenderSUBCLASSES
           ELSE /\ RecommenderSUBCLASSES' = Register(RecommenderSUBCLASSES, type, cls)
                /\ defn' = DefCall("Recommender", type, abstract, prior, Return(cls))
    /\ UNCHANGED ScalerSUBCLASSES

\* class X(Scaler): Scaler.__init_subclass__ (lines 51-55), abstract or not
DefineScaler(type, abstract) ==
    /\ defn.n < MaxDefs
    /\ LET cls == Class("Scaler subclass", defn.n + 1)
           prior == Lookup(ScalerSUBCLASSES, type)
       IN  IF type = NoType
           THEN /\ defn' = DefCall("Scaler", type, abstract, prior, Raise(AttributeError))
                /\ UNCHANGED ScalerSUBCLASSES
           ELSE /\ ScalerSUBCLASSES' = Register(ScalerSUBCLASSES, type, cls)
                /\ defn' = DefCall("Scaler", type, abstract, prior, Return(cls))
    /\ UNCHANGED RecommenderSUBCLASSES

\* The registries once recommender.py and scaler.py are imported
InitRegistry ==
    /\ RecommenderSUBCLASSES =
          Put(Put(<<>>, "UNRESTRICTED_RANKING", Class("MarginalRankingRecommender", 0)),
              "RANDOM", Class("RandomRecommender", 0))
    /\ ScalerSUBCLASSES = Put(<<>>, "DEFAULT", Class("DefaultScaler", 0))
    /\ defn = [n |-> 0]
    /\ candidates = <<>> /\ acqf_values = <<>> /\ rec = None
    /\ searchspace = <<>> /\ fitted = FALSE
    /\ scale_x = Unassigned /\ scale_y = Unassigned
    /\ unscale_x = Unassigned /\ unscale_y = Unassigned
    /\ unscale_m = Unassigned /\ unscale_s = Unassigned
    /\ InitCalls
    /\ pc = <<>> /\ frame = <<>>

NextRegistry ==
    /\ UNCHANGED <<recVars, scalerVars, callVars, threadVars>>
    /\ \/ \E type \in TypeNames \cup {NoType}, abstract \in BOOLEAN :
             DefineRecommender(type, abstract)
       \/ \E type \in TypeNames \cup {NoType}, abstract \in BOOLEAN :
             DefineScaler(type, abstract)

SpecRegistry == InitRegistry /\ [][NextRegistry]_vars

-----------------------------------------------------------------------------
(* scaler.py, statement by statement: threads share one DefaultScaler and  *)
(* run fit_transform, transform and untransform concurrently.  A step is   *)
(* one statement (one attribute read and call of lines 49 and 91).         *)

Threads == {1, 2}
ThreadSpaces == {<<<<0, 0>>, <<10, 10>>>>, <<<<0, 10>>, <<0, 10>>>>}
ThreadInputs == {<<5, 5>>, <<5, 5, 5>>}
ThreadTargets == {<<2, 4>>, <<4>>, <<>>}

\* variant: the flag is set before the functions are stored
FitOrderFlagFirst == <<"l89", "l67", "l73", "l74", "l77", "l78", "l81", "l82", "l85",
                       "l86", "l91x", "l91y">>
\* The statements of fit_transform in program order
FitOrder == <<"l67", "l73", "l74", "l77", "l78", "l81", "l82", "l85", "l86",
              "l89", "l91x", "l91y">>

Idle == "idle"
Position(order, stmt) == CHOOSE i \in DOMAIN order : order[i] = stmt
After(order, stmt) ==
    IF Position(order, stmt) = Len(order) THEN Idle ELSE order[Position(order, stmt) + 1]

Goto(t, stmt) == pc' = [pc EXCEPT ![t] = stmt]
Local(t, name, v) == frame' = [frame EXCEPT ![t][name] = v]
Finish(t, res) == /\ pc' = [pc EXCEPT ![t] = Idle]
                  /\ frame' = [frame EXCEPT ![t].res = res]

\* a thread enters one of the three methods
BeginFit(t, x, y) ==
    /\ pc[t] = Idle
    /\ Goto(t, FitOrder[1])
    /\ frame' = [frame EXCEPT ![t] = [op |-> "fit_transform", x |-> x, y |-> y,
                    bounds |-> None, mean |-> None, std |-> None, sx |-> None, res |-> None]]
    /\ UNCHANGED scalerVars
BeginTransform(t, x) ==
    /\ pc[t] = Idle
    /\ Goto(t, "l41")
    /\ frame' = [frame EXCEPT ![t] = [op |-> "transform", x |-> x, res |-> None]]
    /\ UNCHANGED scalerVars
BeginUntransform(t, mean, variance) ==
    /\ pc[t] = Idle
    /\ Goto(t, "l47")
    /\ frame' = [frame EXCEPT ![t] = [op |-> "untransform", mean |-> mean,
                    variance |-> variance, m |-> None, res |-> None]]
    /\ UNCHANGED scalerVars

\* one statement of DefaultScaler.fit_transform (lines 67-91)
FitStep(t) ==
    /\ pc[t] \in Range(FitOrder)
    /\ LET f == frame[t]
           next == After(FitOrder, pc[t])
       IN  CASE pc[t] = "l67" ->
                  Goto(t, next) /\ Local(t, "bounds", Bounds(searchspace)) /\ UNCHANGED scalerVars
             [] pc[t] = "l73" ->
                  IF ~f.y.isTensor
                  THEN Finish(t, Raise(NotATensorError)) /\ UNCHANGED scalerVars
                  ELSE Goto(t, next) /\ Local(t, "mean", TorchMean(f.y.data)) /\ UNCHANGED scalerVars
             [] pc[t] = "l74" ->
                  Goto(t, next) /\ Local(t, "std", TorchStd(f.y.data)) /\ UNCHANGED scalerVars
             [] pc[t] = "l77" ->
                  /\ Goto(t, next) /\ scale_x' = XClosure("scale_x", f.bounds)
                  /\ UNCHANGED <<frame, searchspace, fitted, scale_y, unscale_x, unscale_y, unscale_m, unscale_s>>
             [] pc[t] = "l78" ->
                  /\ Goto(t, next) /\ scale_y' = YClosure("scale_y", f.mean, f.std)
                  /\ UNCHANGED <<frame, searchspace, fitted, scale_x, unscale_x, unscale_y, unscale_m, unscale_s>>
             [] pc[t] = "l81" ->
                  /\ Goto(t, next) /\ unscale_x' = XClosure("unscale_x", f.bounds)
                  /\ UNCHANGED <<frame, searchspace, fitted, scale_x, scale_y, unscale_y, unscale_m, unscale_s>>
             [] pc[t] = "l82" ->
                  /\ Goto(t, next) /\ unscale_y' = YClosure("unscale_y", f.mean, f.std)
                  /\ UNCHANGED <<frame, searchspace, fitted, scale_x, scale_y, unscale_x, unscale_m, unscale_s>>
             [] pc[t] = "l85" ->
                  /\ Goto(t, next) /\ unscale_m' = YClosure("unscale_m", f.mean, f.std)
                  /\ UNCHANGED <<frame, searchspace, fitted, scale_x, scale_y, unscale_x, unscale_y, unscale_s>>
             [] pc[t] = "l86" ->
                  /\ Goto(t, next) /\ unscale_s' = YClosure("unscale_s", f.mean, f.std)
                  /\ UNCHANGED <<frame, searchspace, fitted, scale_x, scale_y, unscale_x, unscale_y, unscale_m>>
             [] pc[t] = "l89" ->
                  /\ Goto(t, next) /\ fitted' = TRUE
                  /\ UNCHANGED <<frame, searchspace, scale_x, scale_y, unscale_x, unscale_y, unscale_m, unscale_s>>
             [] pc[t] = "l91x" ->
                  /\ IF Raises(scale_x, f.x) THEN Finish(t, Raise(ErrorOf(scale_x)))
                     ELSE Goto(t, next) /\ Local(t, "sx", Apply(scale_x, f.x))
                  /\ UNCHANGED scalerVars
             [] pc[t] = "l91y" ->
                  /\ IF Raises(scale_y, f.y.data) THEN Finish(t, Raise(ErrorOf(scale_y)))
                     ELSE Finish(t, Return(<<f.sx, Apply(scale_y, f.y.data)>>))
                  /\ UNCHANGED scalerVars

\* one statement of Scaler.transform (lines 41-43)
TransformStep(t) ==
    /\ pc[t] \in {"l41", "l43"}
    /\ UNCHANGED scalerVars
    /\ IF pc[t] = "l41"
       THEN IF ~fitted THEN Finish(t, Raise(NotFittedError))
            ELSE Goto(t, "l43") /\ UNCHANGED frame
       ELSE IF Raises(scale_x, frame[t].x) THEN Finish(t, Raise(ErrorOf(scale_x)))
            ELSE Finish(t, Return(Apply(scale_x, frame[t].x)))

\* one statement of Scaler.untransform (lines 47-49)
UntransformStep(t) ==
    /\ pc[t] \in {"l47", "l49m", "l49s"}
    /\ UNCHANGED scalerVars
    /\ CASE pc[t] = "l47" ->
              IF ~fitted THEN Finish(t, Raise(NotFittedError))
              ELSE Goto(t, "l49m") /\ UNCHANGED frame
         [] pc[t] = "l49m" ->
              IF Raises(unscale_m, frame[t].mean) THEN Finish(t, Raise(ErrorOf(unscale_m)))
              ELSE Goto(t, "l49s") /\ Local(t, "m", Apply(unscale_m, frame[t].mean))
         [] pc[t] = "l49s" ->
              IF Raises(unscale_s, frame[t].variance) THEN Finish(t, Raise(ErrorOf(unscale_s)))
              ELSE Finish(t, Return(<<frame[t].m, Apply(unscale_s, frame[t].variance)>>))

InitThreads ==
    /\ \E space \in ThreadSpaces : ScalerInit(space)
    /\ pc = [t \in Threads |-> Idle]
    /\ frame = [t \in Threads |-> [op |-> "none", res |-> None]]
    /\ InitCalls
    /\ candidates = <<>> /\ acqf_values = <<>> /\ rec = None
    /\ RecommenderSUBCLASSES = <<>> /\ ScalerSUBCLASSES = <<>> /\ defn = None

NextThreads ==
    /\ UNCHANGED <<recVars, callVars, registryVars>>
    /\ \E t \in Threads :
          \/ \E x \in ThreadInputs, y \in ThreadTargets : BeginFit(t, Row(x), Tensor(y))
          \/ \E x \in ThreadInputs : BeginTransform(t, Row(x))
          \/ \E m \in Moments, v \in Moments : BeginUntransform(t, Row(m), Row(v))
          \/ FitStep(t)
          \/ TransformStep(t)
          \/ UntransformStep(t)

SpecThreads == InitThreads /\ [][NextThreads]_vars

-----------------------------------------------------------------------------
(* Properties of the recommenders (SpecRecommender).                       *)

Returned(r) == r.res.out = "return"
ScoreOf(label) == acqf_values[Position(candidates, label)]

\* C1: for both recommenders, every table with distinct labels and every
\* batch_quantity from 1 to the size of the table, recommend returns exactly
\* batch_quantity labels, no two of them equal, each a label of the table.
C1_SelectionWellFormed ==
    (rec /= None /\ rec.batch_quantity <= Len(candidates)) =>
        /\ Returned(rec)
        /\ Len(rec.res.val) = rec.batch_quantity
        /\ Injective(rec.res.val)
        /\ Range(rec.res.val) \subseteq Range(candidates)

C1_Witness ==
    /\ rec /= None /\ rec.type = "UNRESTRICTED_RANKING"
    /\ Len(candidates) = 3 /\ rec.batch_quantity = 2
    /\ Returned(rec) /\ Len(rec.res.val) = 2

\* The stable descending ranking: equal values keep their order in the table.
StableArgsort(values) ==
    CHOOSE p \in Argsort(values) :
        \A i, j \in DOMAIN values : (i < j /\ values[p[i]] = values[p[j]]) => p[i] < p[j]

\* C2: MarginalRankingRecommender.recommend returns the batch_quantity
\* candidates with the highest scores in descending order of score, ranked by
\* a stable sort: candidates of equal score keep their order in the table, so
\* the same scores and the same table always give the same selection.
C2_StableTopRanked ==
    (rec /= None /\ rec.type = "UNRESTRICTED_RANKING") =>
        rec.res = Return(IndexAt(candidates,
                                 Slice(StableArgsort(acqf_values), rec.batch_quantity)))

\* C4: RandomRecommender.recommend with batch_quantity greater than the number
\* of candidates fails with the sampling error: it neither truncates nor
\* returns a selection.
C4_RandomOversampleFails ==
    (rec /= None /\ rec.type = "RANDOM" /\ rec.batch_quantity > Len(candidates)) =>
        rec.res = Raise(SampleError)

C4_Witness ==
    /\ rec /= None /\ rec.type = "RANDOM"
    /\ Len(candidates) = 2 /\ rec.batch_quantity = 3
    /\ rec.res.out = "raise"

\* C5: MarginalRankingRecommender.recommend with batch_quantity greater than
\* the number of candidates raises nothing and returns every label of the
\* table, in ranked order.
C5_MarginalOversampleReturnsAll ==
    (rec /= None /\ rec.type = "UNRESTRICTED_RANKING"
        /\ rec.batch_quantity > Len(candidates)) =>
        /\ Returned(rec)
        /\ Len(rec.res.val) = Len(candidates)
        /\ Range(rec.res.val) = Range(candidates)
        /\ \A i, j \in DOMAIN rec.res.val :
              i < j => ScoreOf(rec.res.val[i]) >= ScoreOf(rec.res.val[j])

C5_Witness ==
    /\ rec /= None /\ rec.type = "UNRESTRICTED_RANKING"
    /\ Len(candidates) = 3 /\ rec.batch_quantity = 4
    /\ acqf_values = <<0, 1, 0>>
    /\ Returned(rec) /\ Len(rec.res.val) = 3

-----------------------------------------------------------------------------
(* Properties of the scaler, call by call (SpecScaler, SpecExample).       *)

\* C3: transform and untransform on a Scaler on which no fit_transform call
\* has returned normally raise the not-fitted error (and so invoke none of the
\* six functions); once a fit_transform call has returned normally they no
\* longer raise it.
C3_NotFittedUntilFitSucceeds ==
    call.op \in {"transform", "untransform"} =>
        (call.res = Raise(NotFittedError) <=> ~fitReturned)

\* The example: one feature ranging over [0, 10], training targets [2, 4, 6].
ExampleFitted ==
    /\ fitted
    /\ Bounds(searchspace) = <<<<Int2Num(0)>>, <<Int2Num(10)>>>>
    /\ lastFit.op = "fit_transform" /\ lastFit.y = Tensor(<<2, 4, 6>>)

Within(a, b, tol) == IsFin(a) /\ ~Less(tol, Sub(a, b)) /\ ~Less(tol, Sub(b, a))

\* C6, as amended: in the example the fitted mean is 4 and the fitted standard
\* deviation is 2 (std^2 = 4, the sample deviation with divisor n - 1), so
\* scale_x(5) = 1/2, scale_y(4) = 0 and the inverse variance of 1 is
\* 1 * std^2 = 4, which is not the mean-style 1 * std + mean.
C6_ExampleSampleStd ==
    ExampleFitted =>
        /\ scale_y.mean = Int2Num(4) /\ scale_y.std = Int2Num(2)
        /\ unscale_s.mean = Int2Num(4) /\ Square(unscale_s.std) = Int2Num(4)
        /\ (call.op = "scale_x" /\ call.x = Row(<<5>>)) => call.res = Return(<<Fin(1, 2)>>)
        /\ (call.op = "scale_y" /\ call.x = Row(<<4>>)) => call.res = Return(<<Int2Num(0)>>)
        /\ (call.op = "untransform" /\ call.variance = Row(<<1>>)) =>
              /\ Returned(call)
              /\ call.res.val[2] = <<Int2Num(4)>>
              /\ call.res.val[2] /= UnscaleM(unscale_s.mean, unscale_s.std, call.variance)

C6_Witness ==
    /\ ExampleFitted
    /\ call.op = "untransform" /\ call.variance = Row(<<1>>) /\ Returned(call)

\* C6, as claimed: in the example the fitted mean is 4 and std^2 = 8/3
\* (std about 1.63), so scale_x(5) = 1/2, scale_y(4) = 0 and the inverse
\* variance of 1 is about 2.67.
C6_ExamplePopulationStd ==
    ExampleFitted =>
        /\ scale_y.mean = Int2Num(4) /\ Square(scale_y.std) = Fin(8, 3)
        /\ (call.op = "scale_x" /\ call.x = Row(<<5>>)) => call.res = Return(<<Fin(1, 2)>>)
        /\ (call.op = "scale_y" /\ call.x = Row(<<4>>)) => call.res = Return(<<Int2Num(0)>>)
        /\ (call.op = "untransform" /\ call.variance = Row(<<1>>)) =>
              /\ Returned(call)
              /\ Within(call.res.val[2][1], Fin(267, 100), Fin(1, 100))

RoundTrip == "unscale_x(scale_x)"

\* C7, as amended: for a fitted DefaultScaler and an input x of the space's
\* width, unscale_x(scale_x(x)) equals x in every dimension whose range over
\* the space is not zero, and is nan in a dimension with max = min.
C7_RoundTripPerDimension ==
    call.op = RoundTrip =>
        /\ Returned(call)
        /\ \A j \in DOMAIN call.x :
              call.res.val[j] = IF Bounds(searchspace)[1][j] = Bounds(searchspace)[2][j]
                                THEN NaN ELSE call.x[j]

C7_Witness ==
    /\ call.op = RoundTrip /\ Returned(call)
    /\ Bounds(searchspace) = <<<<Int2Num(5), Int2Num(0)>>, <<Int2Num(10), Int2Num(5)>>>>
    /\ call.x = Row(<<0, 10>>)
    /\ call.res.val = call.x

\* C7, as claimed: for every fitted DefaultScaler and every input x,
\* unscale_x(scale_x(x)) equals x, whatever the space, a space with a
\* zero-range dimension included.
C7_RoundTripEverySpace ==
    call.op = RoundTrip => call.res = Return(call.x)

\* C9: after fit_transform calls on one instance, the stored parameters are
\* those of the space and of the targets of the latest call that returned:
\* transform scales with the bounds of the whole space whatever training
\* inputs were passed, and untransform uses the mean and the deviation of the
\* latest targets, nothing of an earlier fit.
C9_ParametersOfLatestFit ==
    (lastFit.op = "fit_transform" /\ Returned(lastFit)) =>
        LET b == Bounds(searchspace)
            m == TorchMean(lastFit.y.data)
            sd == TorchStd(lastFit.y.data)
        IN  /\ scale_x = XClosure("scale_x", b)
            /\ unscale_x = XClosure("unscale_x", b)
            /\ scale_y = YClosure("scale_y", m, sd)
            /\ unscale_y = YClosure("unscale_y", m, sd)
            /\ unscale_m = YClosure("unscale_m", m, sd)
            /\ unscale_s = YClosure("unscale_s", m, sd)
            /\ call.op = "transform" =>
                  call.res = IF Broadcastable(Len(call.x), Len(b[1]))
                             THEN Return(ScaleX(b, call.x)) ELSE Raise(BroadcastError)
            /\ call.op = "untransform" =>
                  call.res = Return(<<UnscaleM(m, sd, call.mean),
                                      UnscaleS(m, sd, call.variance)>>)

C9_Witness ==
    /\ refitted
    /\ lastFit.op = "fit_transform" /\ Returned(lastFit)
    /\ lastFit.y = Tensor(<<2, 4>>)
    /\ call.op = "untransform" /\ Returned(call)

-----------------------------------------------------------------------------
(* Properties of the registries (SpecRegistry).                            *)

ConfigurationError == [type |-> "ConfigurationError", msg |-> "duplicate strategy name"]
Kept(before, after) == \A n \in DOMAIN before : n \in DOMAIN after /\ after[n] = before[n]

\* C8: both registries are append-only over any sequence of class
\* definitions: an entry, once made, is never removed or replaced, and the
\* definition of a second concrete class under a registered name is rejected
\* with a configuration error.
C8_RegistriesAppendOnly ==
    [][/\ Kept(RecommenderSUBCLASSES, RecommenderSUBCLASSES')
       /\ Kept(ScalerSUBCLASSES, ScalerSUBCLASSES')
       /\ (defn'.n > defn.n /\ ~defn'.abstract /\ defn'.prior /= NoClass) =>
              defn'.res = Raise(ConfigurationError)]_vars

-----------------------------------------------------------------------------
(* Properties of the scaler under thread interleaving (SpecThreads).       *)

AllAssigned ==
    Unassigned \notin {scale_x, scale_y, unscale_x, unscale_y, unscale_m, unscale_s}

\* C10: in every state, also inside a first fit_transform interleaved with
\* transform and untransform calls of other threads, fitted implies that all
\* six functions are assigned, and no call ever reads an unassigned one: it
\* raises the not-fitted error or calls an assigned function.
C10_FlagWrittenLast ==
    /\ fitted => AllAssigned
    /\ \A t \in Threads : frame[t].res /= Raise(AttributeError)

C10_Witness ==
    \E t, u \in Threads :
        /\ pc[t] = "l82" /\ ~fitted /\ scale_x /= Unassigned /\ unscale_y = Unassigned
        /\ frame[u].op = "transform" /\ frame[u].res = Raise(NotFittedError)

=============================================================================
